---- MODULE Spec2Model ----
(***************************************************************************)
(* Multi-mode transportation planner: src/route_planner_rag/main.py (CLI   *)
(* planner, RAGSystem, geocoding, estimator), src/route_planner_rag/api.py *)
(* (web planner) and src/Graphhopper/graphhopper_parse-json_3.py           *)
(* (stand-alone geocoding script).                                         *)
(*                                                                         *)
(* Numbers that Python holds as floats are held as exact rationals         *)
(* [n |-> numerator, d |-> denominator], reduced after every operation;    *)
(* floating-point rounding is not modelled.                                *)
(***************************************************************************)
EXTENDS Integers, Sequences, FiniteSets, TLC

\* ------------------------------------------------------------------ bounds
\* Largest whole-kilometre distance handed to the estimator.
MaxDistKm == 104
\* Largest number of turn-by-turn instructions in a provider path.
MaxSteps == 2
\* Largest number of instructions in a path the provider returns to a planner.
MaxRouteSteps == 1
\* Largest number of store_* calls made by the ingestion harness.
MaxIngest == 2
\* A new planning request is accepted only while the store holds at most
\* this many documents.
MaxStoreLen == 2
\* RAGSystem.query calls made by the query harness.
MaxQueries == 2

\* ------------------------------------------------------------- Python values
\* Python's None for optional text values.
None == "<None>"

\* ---------------------------------------------------------------- rationals
RECURSIVE GCD(_, _)
GCD(a, b) == IF b = 0 THEN a ELSE GCD(b, a % b)

Abs(x) == IF x < 0 THEN -x ELSE x

\* The reduced fraction n/d (d > 0).
Rat(n, d) ==
    LET g == GCD(Abs(n), d)
    IN  IF g = 0 THEN [n |-> 0, d |-> 1] ELSE [n |-> n \div g, d |-> d \div g]

RatInt(k) == [n |-> k, d |-> 1]
\* a / k, a * k, a + k for an integer k > 0.
RatDivInt(a, k) == Rat(a.n, a.d * k)
RatMulInt(a, k) == Rat(a.n * k, a.d)
RatAddInt(a, k) == Rat(a.n + k * a.d, a.d)
RatLess(a, b) == a.n * b.d < b.n * a.d
RatLeq(a, b) == a.n * b.d <= b.n * a.d
RatEq(a, b) == a.n * b.d = b.n * a.d
RatMax(a, b) == IF RatLess(a, b) THEN b ELSE a

\* -------------------------------------------------------------- estimator
\* calculate_additional_transport_times(distance_km, mode): minutes.
MutNoShortFlightFloor(distance_km, mode) ==
    IF mode = "bus" THEN RatMulInt(RatDivInt(distance_km, 25), 60)
    ELSE IF mode = "airplane"
         THEN RatMax(RatInt(30),
                     RatAddInt(RatMulInt(RatDivInt(distance_km, 700), 60), 30))
    ELSE RatInt(0)

MutCruisingSpeed(distance_km, mode) ==
    IF mode = "bus" THEN RatMulInt(RatDivInt(distance_km, 25), 60)
    ELSE IF mode = "airplane"
         THEN IF RatLess(distance_km, RatInt(100)) THEN RatInt(30)
              ELSE RatMax(RatInt(30),
                          RatAddInt(RatMulInt(RatDivInt(distance_km, 800), 60), 30))
    ELSE RatInt(0)

MutBusSpeed(distance_km, mode) ==
    IF mode = "bus" THEN RatMulInt(RatDivInt(distance_km, 30), 60)
    ELSE IF mode = "airplane"
         THEN IF RatLess(distance_km, RatInt(100)) THEN RatInt(30)
              ELSE RatMax(RatInt(30),
                          RatAddInt(RatMulInt(RatDivInt(distance_km, 700), 60), 30))
    ELSE RatInt(0)

MutDefaultCarSpeed(distance_km, mode) ==
    IF mode = "bus" THEN RatMulInt(RatDivInt(distance_km, 25), 60)
    ELSE IF mode = "airplane"
         THEN IF RatLess(distance_km, RatInt(100)) THEN RatInt(30)
              ELSE RatMax(RatInt(30),
                          RatAddInt(RatMulInt(RatDivInt(distance_km, 700), 60), 30))
    ELSE RatMulInt(RatDivInt(distance_km, 60), 60)

calculate_additional_transport_times(distance_km, mode) ==
    IF mode = "bus"
    THEN \* duration_minutes = (distance_km / avg_speed_kmh) * 60
         RatMulInt(RatDivInt(distance_km, 25), 60)
    ELSE IF mode = "airplane"
         THEN IF RatLess(distance_km, RatInt(100))
              THEN RatInt(30)
              ELSE \* max(30, (distance_km / 700) * 60 + 30)
                   RatMax(RatInt(30),
                          RatAddInt(RatMulInt(RatDivInt(distance_km, 700), 60), 30))
    ELSE RatInt(0)

\* A duration in minutes, in seconds.
Seconds(minutes) == RatMulInt(minutes, 60)

\* ---------------------------------------------------------- RAGSystem store
\* A provider path: distance in metres, time in milliseconds, and the
\* "instructions" list when the key is present.
Path(distance, time, has_instructions, instructions) ==
    [distance |-> distance, time |-> time,
     has_instructions |-> has_instructions, instructions |-> instructions]

\* A decoded route response body: the "paths" list when the key is present.
PathsData(has_paths, paths) == [has_paths |-> has_paths, paths |-> paths]

Document(page_content, metadata) ==
    [page_content |-> page_content, metadata |-> metadata]

\* f"{orig_loc}_to_{dest_loc}_{vehicle}"
route_id(orig_loc, dest_loc, vehicle) ==
    orig_loc \o "_to_" \o dest_loc \o "_" \o vehicle

\* path["distance"] / 1000 and path["distance"] / 1000 / 1.61
PathKm(path) == Rat(path.distance, 1000)
PathMiles(path) == Rat(path.distance * 100, 1000 * 161)
\* int(time / 1000 % 60), int(time / 1000 / 60 % 60), int(time / 1000 / 60 / 60)
PathSec(path) == (path.time \div 1000) % 60
PathMin(path) == ((path.time \div 1000) \div 60) % 60
PathHr(path) == ((path.time \div 1000) \div 60) \div 60

\* len(path.get('instructions', []))
NumInstructions(path) ==
    IF path.has_instructions THEN Len(path.instructions) ELSE 0

\* vector_store.add_documents(documents)
MutAddDocumentsReplace(vector_store, documents) == documents

MutAddDocumentsUpsert(vector_store, documents) ==
    SelectSeq(vector_store,
              LAMBDA doc : \A i \in 1..Len(documents) :
                  documents[i].metadata.route_id # doc.metadata.route_id)
        \o documents

add_documents(vector_store, documents) == vector_store \o documents

\* The direction documents of store_route_data, one per instruction.
MutDirectionsZeroBased(path, rid, vehicle) ==
    IF path.has_instructions
    THEN [k \in 1..Len(path.instructions) |->
            LET idx == k - 1
                instruction == path.instructions[idx + 1]
            IN  Document([kind |-> "direction", step |-> idx,
                          text |-> instruction.text,
                          km |-> Rat(instruction.distance, 1000),
                          mode |-> vehicle],
                         [type |-> "direction", step_number |-> idx,
                          route_id |-> rid, mode |-> vehicle])]
    ELSE <<>>

DirectionDocuments(path, rid, vehicle) ==
    IF path.has_instructions
    THEN [k \in 1..Len(path.instructions) |->
            LET idx == k - 1
                instruction == path.instructions[idx + 1]
            IN  Document([kind |-> "direction", step |-> idx + 1,
                          text |-> instruction.text,
                          km |-> Rat(instruction.distance, 1000),
                          mode |-> vehicle],
                         [type |-> "direction", step_number |-> idx + 1,
                          route_id |-> rid, mode |-> vehicle])]
    ELSE <<>>

\* The documents list built by store_route_data for paths[0].
MutSummaryRouteIdWithoutMode(path, orig_loc, dest_loc, vehicle) ==
    LET rid == route_id(orig_loc, dest_loc, vehicle)
        route_meta ==
            Document([kind |-> "Route Information", origin |-> orig_loc,
                      destination |-> dest_loc, mode |-> vehicle,
                      km |-> PathKm(path), miles |-> PathMiles(path),
                      hr |-> PathHr(path), min |-> PathMin(path),
                      sec |-> PathSec(path)],
                     [type |-> "route_metadata", origin |-> orig_loc,
                      destination |-> dest_loc, mode |-> vehicle,
                      route_id |-> rid])
        summary ==
            Document([kind |-> "Complete route", origin |-> orig_loc,
                      destination |-> dest_loc, mode |-> vehicle,
                      km |-> PathKm(path), miles |-> PathMiles(path),
                      hr |-> PathHr(path), min |-> PathMin(path),
                      sec |-> PathSec(path), steps |-> NumInstructions(path)],
                     [type |-> "route_summary",
                      route_id |-> orig_loc \o "_to_" \o dest_loc,
                      mode |-> vehicle])
    IN  <<route_meta>> \o DirectionDocuments(path, rid, vehicle) \o <<summary>>

RouteDocuments(path, orig_loc, dest_loc, vehicle) ==
    LET rid == route_id(orig_loc, dest_loc, vehicle)
        route_meta ==
            Document([kind |-> "Route Information", origin |-> orig_loc,
                      destination |-> dest_loc, mode |-> vehicle,
                      km |-> PathKm(path), miles |-> PathMiles(path),
                      hr |-> PathHr(path), min |-> PathMin(path),
                      sec |-> PathSec(path)],
                     [type |-> "route_metadata", origin |-> orig_loc,
                      destination |-> dest_loc, mode |-> vehicle,
                      route_id |-> rid])
        summary ==
            Document([kind |-> "Complete route", origin |-> orig_loc,
                      destination |-> dest_loc, mode |-> vehicle,
                      km |-> PathKm(path), miles |-> PathMiles(path),
                      hr |-> PathHr(path), min |-> PathMin(path),
                      sec |-> PathSec(path), steps |-> NumInstructions(path)],
                     [type |-> "route_summary", route_id |-> rid,
                      mode |-> vehicle])
    IN  <<route_meta>> \o DirectionDocuments(path, rid, vehicle) \o <<summary>>

\* RAGSystem.store_route_data: the vector store after the call.
store_route_data(vector_store, paths_data, orig_loc, dest_loc, vehicle) ==
    IF ~paths_data.has_paths \/ Len(paths_data.paths) = 0
    THEN vector_store
    ELSE add_documents(vector_store,
             RouteDocuments(paths_data.paths[1], orig_loc, dest_loc, vehicle))

\* divmod(duration, 60), divmod(min_remainder, 1), sec *= 60, then int().
RatFloor(a) == a.n \div a.d
RatSubInt(a, k) == Rat(a.n - k * a.d, a.d)
EstHr(duration) == RatFloor(duration)  \div 60
EstMinRemainder(duration) == RatSubInt(duration, 60 * EstHr(duration))
EstMin(duration) == RatFloor(EstMinRemainder(duration))
EstSec(duration) ==
    RatFloor(RatMulInt(RatSubInt(EstMinRemainder(duration), EstMin(duration)), 60))

\* The documents list built by store_additional_transport_info.
MutNoAirplaneInfo(orig_loc, dest_loc, vehicle, distance, duration) ==
    LET rid == route_id(orig_loc, dest_loc, vehicle)
        route_meta ==
            Document([kind |-> "Route Information (Estimated)",
                      origin |-> orig_loc, destination |-> dest_loc,
                      mode |-> vehicle, km |-> distance,
                      miles |-> Rat(distance.n * 100, distance.d * 161),
                      hr |-> EstHr(duration), min |-> EstMin(duration),
                      sec |-> EstSec(duration)],
                     [type |-> "route_metadata", origin |-> orig_loc,
                      destination |-> dest_loc, mode |-> vehicle,
                      route_id |-> rid, estimated |-> TRUE])
        info(title, mode) ==
            Document([kind |-> title, origin |-> orig_loc,
                      destination |-> dest_loc, km |-> distance,
                      miles |-> Rat(distance.n * 100, distance.d * 161),
                      hr |-> EstHr(duration), min |-> EstMin(duration),
                      sec |-> EstSec(duration)],
                     [type |-> "transport_info", mode |-> mode,
                      route_id |-> rid])
    IN  <<route_meta>> \o
        (IF vehicle = "bus" THEN <<info("Bus Travel Information", "bus")>>
         ELSE <<>>)

AdditionalDocuments(orig_loc, dest_loc, vehicle, distance, duration) ==
    LET rid == route_id(orig_loc, dest_loc, vehicle)
        route_meta ==
            Document([kind |-> "Route Information (Estimated)",
                      origin |-> orig_loc, destination |-> dest_loc,
                      mode |-> vehicle, km |-> distance,
                      miles |-> Rat(distance.n * 100, distance.d * 161),
                      hr |-> EstHr(duration), min |-> EstMin(duration),
                      sec |-> EstSec(duration)],
                     [type |-> "route_metadata", origin |-> orig_loc,
                      destination |-> dest_loc, mode |-> vehicle,
                      route_id |-> rid, estimated |-> TRUE])
        info(title, mode) ==
            Document([kind |-> title, origin |-> orig_loc,
                      destination |-> dest_loc, km |-> distance,
                      miles |-> Rat(distance.n * 100, distance.d * 161),
                      hr |-> EstHr(duration), min |-> EstMin(duration),
                      sec |-> EstSec(duration)],
                     [type |-> "transport_info", mode |-> mode,
                      route_id |-> rid])
    IN  <<route_meta>> \o
        (IF vehicle = "bus" THEN <<info("Bus Travel Information", "bus")>>
         ELSE IF vehicle = "airplane"
              THEN <<info("Air Travel Information", "airplane")>>
              ELSE <<>>)

\* RAGSystem.store_additional_transport_info: the vector store after the call.
store_additional_transport_info(vector_store, orig_loc, dest_loc, vehicle, distance, duration) ==
    add_documents(vector_store,
        AdditionalDocuments(orig_loc, dest_loc, vehicle, distance, duration))

\* ---------------------------------------------------------- RAGSystem.query
\* `if user_location:` / `if transport_preference:` - None and "" are false.
Falsy(x) == x = None \/ x = ""

\* sep.join(parts)
RECURSIVE JoinStrings(_, _)
JoinStrings(sep, parts) ==
    IF Len(parts) = 0 THEN ""
    ELSE IF Len(parts) = 1 THEN parts[1]
    ELSE parts[1] \o sep \o JoinStrings(sep, Tail(parts))

MutQueryContextPreferenceFirst(transport_preference, user_location) ==
    (IF Falsy(transport_preference) THEN <<>>
     ELSE <<"User prefers " \o transport_preference \o " transportation">>)
    \o (IF Falsy(user_location) THEN <<>>
        ELSE <<"User is currently at " \o user_location>>)

\* query: the list query_context.
QueryContext(transport_preference, user_location) ==
    (IF Falsy(user_location) THEN <<>>
     ELSE <<"User is currently at " \o user_location>>)
    \o (IF Falsy(transport_preference) THEN <<>>
        ELSE <<"User prefers " \o transport_preference \o " transportation">>)

\* query: enhanced_query.
EnhancedQuery(user_query, transport_preference, user_location) ==
    LET query_context == QueryContext(transport_preference, user_location)
    IN  IF query_context # <<>>
        THEN user_query \o " (" \o JoinStrings("; ", query_context) \o ")"
        ELSE user_query

\* format_docs: the page contents of the documents, in order (the "\n\n"
\* between them is the boundary between two elements).
format_docs(docs) == [i \in 1..Len(docs) |-> docs[i].page_content]

\* The answer of the except branch.
FallbackAnswer == "I'm sorry, I couldn't process your request at this time."

\* query: the inputs dict the prompt template is formatted with.
PromptInputs(context, question, chat_history, transport_preference) ==
    [context |-> context, question |-> question,
     chat_history |-> chat_history,
     transport_preference |->
        IF Falsy(transport_preference) THEN "any" ELSE transport_preference]

NoPrompt == [context |-> <<>>, question |-> None, chat_history |-> <<>>,
             transport_preference |-> None]

\* What one call meets: whether get_relevant_documents raises, the
\* documents it returns, whether gemini.invoke raises, and the model's text.
QueryEnv(retrieval_raises, docs, model_raises, content) ==
    [retrieval_raises |-> retrieval_raises, docs |-> docs,
     model_raises |-> model_raises, content |-> content]

MutQueryNoTry(chat_history, user_query, transport_preference, user_location, env) ==
    LET enhanced_query ==
            EnhancedQuery(user_query, transport_preference, user_location)
        inputs == PromptInputs(format_docs(env.docs), enhanced_query, chat_history,
                               transport_preference)
    IN  IF env.retrieval_raises
        THEN [retrieved_with |-> enhanced_query, prompted |-> FALSE,
              prompt |-> NoPrompt, raised |-> TRUE,
              response |-> [answer |-> None, sources |-> <<>>],
              memory |-> chat_history]
        ELSE IF env.model_raises
        THEN [retrieved_with |-> enhanced_query, prompted |-> TRUE,
              prompt |-> inputs, raised |-> TRUE,
              response |-> [answer |-> None, sources |-> <<>>],
              memory |-> chat_history]
        ELSE [retrieved_with |-> enhanced_query, prompted |-> TRUE,
              prompt |-> inputs, raised |-> FALSE,
              response |-> [answer |-> env.content, sources |-> <<>>],
              memory |-> chat_history]

\* RAGSystem.query(user_query, transport_preference, user_location) with the
\* chat history memory holds: the string given to the retriever, the inputs
\* of the prompt given to the model (when one was), the dict returned, and
\* the chat history memory holds afterwards (query never writes to memory).
query(chat_history, user_query, transport_preference, user_location, env) ==
    LET enhanced_query ==
            EnhancedQuery(user_query, transport_preference, user_location)
        inputs == PromptInputs(format_docs(env.docs), enhanced_query, chat_history,
                               transport_preference)
    IN  IF env.retrieval_raises
        THEN [retrieved_with |-> enhanced_query, prompted |-> FALSE,
              prompt |-> NoPrompt, raised |-> FALSE,
              response |-> [answer |-> FallbackAnswer, sources |-> <<>>],
              memory |-> chat_history]
        ELSE IF env.model_raises
        THEN [retrieved_with |-> enhanced_query, prompted |-> TRUE,
              prompt |-> inputs, raised |-> FALSE,
              response |-> [answer |-> FallbackAnswer, sources |-> <<>>],
              memory |-> chat_history]
        ELSE [retrieved_with |-> enhanced_query, prompted |-> TRUE,
              prompt |-> inputs, raised |-> FALSE,
              response |-> [answer |-> env.content, sources |-> <<>>],
              memory |-> chat_history]

\* --------------------------------------------------------------- variables
VARIABLES
    est_pc,     \* estimator harness: "args" before the calls, "done" after
    est_mode,   \* estimator harness: the mode argument
    est_d1,     \* estimator harness: first distance argument (km)
    est_d2,     \* estimator harness: second distance argument (km)
    est_r1,     \* estimator harness: result for est_d1 (minutes)
    est_r2,     \* estimator harness: result for est_d2 (minutes)
    store,      \* RAGSystem.vector_store: the documents added, in order
    ingest_log, \* ingestion harness: one entry per store_* call made
    program,    \* which entry point runs: "cli" (main.py), "web" (api.py),
                \* "script" (graphhopper_parse-json_3.py), or one of the
                \* harnesses "est" / "ingest"
    pc,         \* position of the running request
    loc1,       \* the origin text of the request
    loc2,       \* the destination text of the request
    location,   \* geocoding's local variable `location`
    orig,       \* main(): orig tuple; plan_route: orig_data
    dest,       \* main(): dest tuple; plan_route: dest_data
    vehicle_idx,        \* position of the `for vehicle in ...` loop
    all_paths_data,     \* main(): vehicle -> decoded route response
    base_car_distance,  \* main(): <<>> for None, else <<km>>
    global_route_data,  \* ProfessionalTransportationPlanner.global_route_data
    result,     \* what the request showed or returned to the user
    events,     \* provider calls and ingestions of the current request
    geo_pc,     \* geocoding harness: "call" before the call, "done" after
    geo_fn,     \* geocoding harness: which geocoding function is called
    geo_arg,    \* geocoding harness: the location argument of the call
    geo_location,   \* geocoding harness: the callee's local `location`
    geo_reply,  \* geocoding harness: what requests.get gave
    geo_out,    \* geocoding harness: how the call ended
    memory,     \* main.py memory: the chat history, a sequence of pairs
    query_log,  \* query harness: one entry per RAGSystem.query call made
    call_before,    \* plan_route: <<global_route_data as it was when the
                    \* running call began>>; <<>> when no call is running
    route_planned,  \* whether some plan_route call has reached the reset of
                    \* global_route_data (api.py line 112)
    streamed    \* what the running stream_route_query call yielded

est_vars == <<est_pc, est_mode, est_d1, est_d2, est_r1, est_r2>>
geo_vars == <<geo_pc, geo_fn, geo_arg, geo_location, geo_reply, geo_out>>
qry_vars == <<memory, query_log>>
web_vars == <<call_before, route_planned, streamed>>
req_vars == <<program, pc, loc1, loc2, location, orig, dest, vehicle_idx,
              all_paths_data, base_car_distance, global_route_data, result,
              events, web_vars>>
vars == <<est_vars, geo_vars, qry_vars, store, ingest_log, req_vars>>

\* -------------------------------------------------------------- environment
api_supported_profiles == <<"car", "bike", "foot">>
additional_profiles == <<"bus", "airplane">>
all_profiles == {"car", "bike", "foot", "bus", "airplane"}
transport_modes == <<"car", "bike", "foot", "bus", "airplane">>

\* Text a user can type for a location.
Inputs == {"", "Rome", "Baltimore", "Atlantis"}
QuitWords == {"quit", "q", "exit"}

\* The provider's geocode hits for a query (limit=1); the four places differ
\* in which of "state" and "country" the hit carries.
GeocodeHits(q) ==
    IF q = "Rome"
    THEN <<[name |-> "Rome", has_state |-> FALSE, state |-> "",
            has_country |-> TRUE, country |-> "Italy",
            lat |-> "41.89", lng |-> "12.48", osm_value |-> "city"]>>
    ELSE IF q = "Baltimore"
    THEN <<[name |-> "Baltimore", has_state |-> TRUE, state |-> "Maryland",
            has_country |-> TRUE, country |-> "United States",
            lat |-> "39.29", lng |-> "-76.61", osm_value |-> "city"]>>
    ELSE IF q = "Kosovo"
    THEN <<[name |-> "Kosovo", has_state |-> FALSE, state |-> "",
            has_country |-> FALSE, country |-> "",
            lat |-> "42.58", lng |-> "20.90", osm_value |-> "country"]>>
    ELSE IF q = "Bavaria"
    THEN <<[name |-> "Bavaria", has_state |-> TRUE, state |-> "Bavaria",
            has_country |-> FALSE, country |-> "",
            lat |-> "48.95", lng |-> "11.40", osm_value |-> "state"]>>
    ELSE <<>>

\* One outcome of requests.get(url) and of reading the reply: raises for a
\* RequestException of requests.get itself; json_error for the exception
\* class replydata.json() raises on a body that is not JSON ("none" when it
\* parses; requests >= 2.27 raises a RequestException subclass, older
\* versions a plain ValueError); has_hits / has_message for the presence of
\* the "hits" and "message" keys of the decoded body.
GeocodeReply(raises, status, json_error, has_hits, hits, has_message) ==
    [raises |-> raises, status |-> status, json_error |-> json_error,
     has_hits |-> has_hits, hits |-> hits, has_message |-> has_message]

\* What requests.get(geocode url) can give: a 200 body with the hits, an
\* error status with a message, or a raised RequestException.
GeocodeReplies(q) ==
    {GeocodeReply(FALSE, 200, "none", TRUE, GeocodeHits(q), FALSE),
     GeocodeReply(FALSE, 401, "none", FALSE, <<>>, TRUE),
     GeocodeReply(TRUE, 0, "none", FALSE, <<>>, FALSE)}

\* Replies whose body is not what the provider documents: a body that is not
\* JSON (a gateway's HTML page), an error body without "message", a 200 body
\* without "hits".
MalformedGeocodeReplies ==
    {GeocodeReply(FALSE, st, je, FALSE, <<>>, FALSE) :
        st \in {200, 502}, je \in {"RequestException", "ValueError"}}
    \cup {GeocodeReply(FALSE, 500, "none", FALSE, <<>>, FALSE),
          GeocodeReply(FALSE, 200, "none", FALSE, <<>>, FALSE)}

\* The instructions list of a provider path with n steps.
Instructions(n) ==
    [i \in 1..n |-> [text |-> "turn-" \o ToString(i), distance |-> 500 * i]]

\* Paths the provider can return for a vehicle: only the car distance varies.
RoutePaths(vehicle) ==
    {Path(d, 3725000, TRUE, Instructions(n)) :
        d \in (IF vehicle = "car" THEN {0, 6800000} ELSE {7100000}),
        n \in 0..MaxRouteSteps}

\* What requests.get(route url) can give; no route exists between points
\* that did not resolve.
RouteReplies(vehicle, points_resolved) ==
    {[raises |-> TRUE, status |-> 0, paths_data |-> PathsData(FALSE, <<>>)],
     [raises |-> FALSE, status |-> 400, paths_data |-> PathsData(FALSE, <<>>)]}
    \cup (IF points_resolved
          THEN {[raises |-> FALSE, status |-> 200,
                 paths_data |-> PathsData(TRUE, <<>>)]}
               \cup {[raises |-> FALSE, status |-> 200,
                      paths_data |-> PathsData(TRUE, <<p>>)] :
                        p \in RoutePaths(vehicle)}
          ELSE {})

HasPath(paths_data) == paths_data.has_paths /\ Len(paths_data.paths) > 0

\* How a reply is entered in the events of a request.
GeocodeOutcome(reply) ==
    IF reply.raises THEN "raise"
    ELSE IF reply.status # 200 THEN "status"
    ELSE IF Len(reply.hits) = 0 THEN "nohits" ELSE "hit"

RouteOutcome(reply) ==
    IF reply.raises THEN "raise"
    ELSE IF reply.status # 200 THEN "status"
    ELSE IF HasPath(reply.paths_data) THEN "path" ELSE "nopath"

GeocodeEvent(which, arg, q, reply) ==
    [api |-> "geocode", which |-> which, arg |-> arg, q |-> q,
     outcome |-> GeocodeOutcome(reply)]

RouteEvent(vehicle, reply) ==
    [api |-> "route", vehicle |-> vehicle, outcome |-> RouteOutcome(reply),
     paths_data |-> reply.paths_data]

IngestEvent(vehicle, added) ==
    [api |-> "ingest", vehicle |-> vehicle, added |-> added]

\* --------------------------------------------------------------- geocoding
\* main.py geocoding, after the `while location == ""` loop, for a reply
\* that did not raise: <<json_status, lat, lng, new_loc>>.
geocoding(loc, reply) ==
    IF reply.status = 200 /\ Len(reply.hits) # 0
    THEN LET hit == reply.hits[1]
             country == IF hit.has_country THEN hit.country ELSE ""
             state == IF hit.has_state THEN hit.state ELSE ""
             new_loc ==
                IF Len(state) # 0 /\ Len(country) # 0
                THEN hit.name \o ", " \o state \o ", " \o country
                ELSE IF Len(state) # 0
                     THEN hit.name \o ", " \o country
                     ELSE hit.name
         IN  <<reply.status, hit.lat, hit.lng, new_loc>>
    ELSE <<reply.status, "null", "null", loc>>

\* main.py geocoding: the replies on which it raises instead of returning.
\* requests.get and replydata.json() are not in a try; json_data["hits"] is
\* read when the status is 200, json_data["message"] when it is not.
geocoding_raises(reply) ==
    \/ reply.raises
    \/ reply.json_error # "none"
    \/ reply.status = 200 /\ ~reply.has_hits
    \/ reply.status # 200 /\ ~reply.has_message

\* api.py geocode_location: the dict returned for a geocoding reply.
geocode_location(loc, reply) ==
    IF geocoding_raises(reply)
    THEN [status |-> "error", message |-> "Geocoding error"]
    ELSE LET g == geocoding(loc, reply)
         IN  IF g[1] # 200 \/ g[2] = "null" \/ g[3] = "null"
             THEN [status |-> "error", message |-> "Could not geocode location"]
             ELSE [status |-> "success", location |-> g[4],
                   latitude |-> g[2], longitude |-> g[3]]

\* graphhopper_parse-json_3.py geocoding: the replies on which it raises.
\* Only requests.exceptions.RequestException is caught.
script_geocoding_raises(loc, reply) ==
    /\ loc # ""
    /\ ~reply.raises
    /\ \/ reply.json_error = "ValueError"
       \/ reply.json_error = "none" /\ reply.status = 200 /\ ~reply.has_hits

\* graphhopper_parse-json_3.py geocoding(location, api_key); the provider is
\* called only when location is not empty.
script_geocoding(loc, reply) ==
    IF loc = ""
    THEN <<400, "null", "null", "Empty location">>
    ELSE IF reply.raises \/ reply.json_error = "RequestException"
    THEN <<500, "null", "null", loc>>
    ELSE IF reply.status = 200 /\ Len(reply.hits) # 0
    THEN LET hit == reply.hits[1]
             location_parts ==
                <<hit.name>>
                \o (IF hit.has_state THEN <<hit.state>> ELSE <<>>)
                \o (IF hit.has_country THEN <<hit.country>> ELSE <<>>)
             new_loc ==
                IF Len(location_parts) = 1 THEN location_parts[1]
                ELSE IF Len(location_parts) = 2
                     THEN location_parts[1] \o ", " \o location_parts[2]
                     ELSE location_parts[1] \o ", " \o location_parts[2]
                          \o ", " \o location_parts[3]
         IN  <<reply.status, hit.lat, hit.lng, new_loc>>
    ELSE <<reply.status, "null", "null", loc>>

\* ----------------------------------------------------------- initial parts
EstIdle ==
    /\ est_pc = "idle" /\ est_mode = None
    /\ est_d1 = RatInt(0) /\ est_d2 = RatInt(0)
    /\ est_r1 = RatInt(0) /\ est_r2 = RatInt(0)

\* A fresh vector store (an empty ./vector_db).
StoreEmpty == store = <<>> /\ ingest_log = <<>>

NoResult == [status |-> "pending", modes |-> <<>>]

\* stream_route_query is not running: nothing has been yielded.
NoStream == [kind |-> "none", answer |-> None]

\* No request has been made yet.
RequestIdle ==
    /\ loc1 = "" /\ loc2 = "" /\ location = ""
    /\ orig = <<>> /\ dest = <<>>
    /\ vehicle_idx = 0
    /\ all_paths_data = <<>>
    /\ base_car_distance = <<>>
    /\ global_route_data =
           [origin |-> None, destination |-> None, routes |-> <<>>]
    /\ result = NoResult
    /\ events = <<>>
    /\ call_before = <<>>
    /\ route_planned = FALSE
    /\ streamed = NoStream

\* requests.get has not been called.
NoReply == GeocodeReply(FALSE, 0, "none", FALSE, <<>>, FALSE)

\* No geocoding call of the geocoding harness is under way.
GeoIdle ==
    /\ geo_pc = "idle" /\ geo_fn = None /\ geo_arg = "" /\ geo_location = ""
    /\ geo_reply = NoReply
    /\ geo_out = [ended |-> "no", value |-> <<>>]

\* memory = ConversationBufferMemory(...): an empty chat history; no query
\* has been made.
QueryIdle == memory = <<>> /\ query_log = <<>>

\* ------------------------------------------------------- estimator harness
\* Distances fed to the estimator: every whole kilometre up to MaxDistKm,
\* the half kilometres next to the 100 km threshold, and the 6800 km of
\* the Rome - Baltimore scenario.
EstDistances ==
    {RatInt(k) : k \in 0..MaxDistKm} \cup {Rat(199, 2), Rat(201, 2), RatInt(6800)}

EstModes == {"bus", "airplane", "car", "bike", "foot", "train", "Bus", ""}

InitEst ==
    /\ est_pc = "args"
    /\ est_mode \in EstModes
    /\ est_d1 \in EstDistances
    /\ est_d2 \in EstDistances
    /\ est_r1 = RatInt(0)
    /\ est_r2 = RatInt(0)
    /\ GeoIdle
    /\ QueryIdle
    /\ StoreEmpty
    /\ program = "est" /\ pc = "harness"
    /\ RequestIdle

\* Two calls of the estimator with the same mode.
Estimate ==
    /\ est_pc = "args"
    /\ est_r1' = calculate_additional_transport_times(est_d1, est_mode)
    /\ est_r2' = calculate_additional_transport_times(est_d2, est_mode)
    /\ est_pc' = "done"
    /\ UNCHANGED <<est_mode, est_d1, est_d2, geo_vars, qry_vars, store,
                   ingest_log, req_vars>>

NextEst == Estimate

SpecEst == InitEst /\ [][NextEst]_vars

\* ------------------------------------------------------- ingestion harness
\* Calls of the two store_* methods on one RAGSystem, with arguments drawn
\* from small sets.
HarnessPlaces == {"Rome", "Baltimore, Maryland, United States"}

\* The <<orig_loc, dest_loc>> pairs of the calls; two of them have a place
\* name that holds the text "_to_".
HarnessRoutes ==
    {<<"Rome", dest_loc>> : dest_loc \in HarnessPlaces}
    \cup {<<"Rome_to_Ostia", "Lido">>, <<"Rome", "Ostia_to_Lido">>}

HarnessPathsData ==
    {PathsData(FALSE, <<>>), PathsData(TRUE, <<>>),
     PathsData(TRUE, <<Path(6800000, 3725000, FALSE, <<>>)>>),
     \* two candidate paths: only paths[0] is read
     PathsData(TRUE, <<Path(6800000, 3725000, TRUE, Instructions(1)),
                       Path(7100000, 4000000, TRUE, <<>>)>>)}
    \cup {PathsData(TRUE, <<Path(6800000, 3725000, TRUE, Instructions(n))>>) :
            n \in 0..MaxSteps}

InitIngest ==
    /\ EstIdle
    /\ GeoIdle
    /\ QueryIdle
    /\ StoreEmpty
    /\ program = "ingest" /\ pc = "harness"
    /\ RequestIdle

HarnessStoreRouteData ==
    /\ program = "ingest"
    /\ Len(ingest_log) < MaxIngest
    /\ \E paths_data \in HarnessPathsData, route \in HarnessRoutes,
          vehicle \in {"car", "bike"} :
         LET orig_loc == route[1]
             dest_loc == route[2]
         IN
         /\ store' = store_route_data(store, paths_data, orig_loc, dest_loc, vehicle)
         /\ ingest_log' = Append(ingest_log,
                [op |-> "store_route_data", orig_loc |-> orig_loc,
                 dest_loc |-> dest_loc, vehicle |-> vehicle,
                 paths_data |-> paths_data,
                 before |-> Len(store), after |-> Len(store')])
    /\ UNCHANGED <<est_vars, geo_vars, qry_vars, req_vars>>

HarnessStoreAdditional ==
    /\ program = "ingest"
    /\ Len(ingest_log) < MaxIngest
    /\ \E route \in HarnessRoutes, vehicle \in {"bus", "airplane", "train"} :
         LET orig_loc == route[1]
             dest_loc == route[2]
             distance == RatInt(6800)
             duration == calculate_additional_transport_times(distance, vehicle)
         IN
         /\ store' = store_additional_transport_info(store, orig_loc, dest_loc,
                                                     vehicle, distance, duration)
         /\ ingest_log' = Append(ingest_log,
                [op |-> "store_additional_transport_info", orig_loc |-> orig_loc,
                 dest_loc |-> dest_loc, vehicle |-> vehicle,
                 paths_data |-> PathsData(FALSE, <<>>),
                 before |-> Len(store), after |-> Len(store')])
    /\ UNCHANGED <<est_vars, geo_vars, qry_vars, req_vars>>

NextIngest == HarnessStoreRouteData \/ HarnessStoreAdditional

SpecIngest == InitIngest /\ [][NextIngest]_vars

\* ------------------------------------------------------- geocoding harness
\* One call of one of the three geocoding functions, with the argument and
\* the provider's reply drawn from small sets.
GeoFunctions == {"main.geocoding", "api.geocode_location", "script.geocoding"}

GeoQueries == {"", "Rome", "Baltimore", "Kosovo", "Bavaria", "Atlantis"}

\* How a call of function fn ends once requests.get gave reply.
GeoOutcome(fn, loc, reply) ==
    IF fn = "main.geocoding"
    THEN IF geocoding_raises(reply)
         THEN [ended |-> "raised", value |-> <<>>]
         ELSE [ended |-> "returned", value |-> geocoding(loc, reply)]
    ELSE IF fn = "api.geocode_location"
    THEN [ended |-> "returned", value |-> geocode_location(loc, reply)]
    ELSE IF script_geocoding_raises(loc, reply)
         THEN [ended |-> "raised", value |-> <<>>]
         ELSE [ended |-> "returned", value |-> script_geocoding(loc, reply)]

InitGeo ==
    /\ EstIdle
    /\ QueryIdle
    /\ StoreEmpty
    /\ program = "geo" /\ pc = "harness"
    /\ RequestIdle
    /\ geo_pc = "call"
    /\ geo_fn \in GeoFunctions
    /\ geo_arg \in GeoQueries
    /\ geo_location = geo_arg
    /\ geo_reply = NoReply
    /\ geo_out = [ended |-> "no", value |-> <<>>]

\* main.py geocoding (also reached through geocode_location):
\* `while location == "": location = input(...)`.
GeoPrompt ==
    /\ geo_pc = "call"
    /\ geo_fn \in {"main.geocoding", "api.geocode_location"}
    /\ geo_location = ""
    /\ \E typed \in GeoQueries : geo_location' = typed
    /\ UNCHANGED <<est_vars, qry_vars, store, ingest_log, req_vars,
                   geo_pc, geo_fn, geo_arg, geo_reply, geo_out>>

\* The call from the request (or the early return of the script's function
\* for an empty location) to its end.
GeoCall ==
    /\ geo_pc = "call"
    /\ geo_fn = "script.geocoding" \/ geo_location # ""
    /\ IF geo_location = ""
       THEN /\ geo_out' = GeoOutcome(geo_fn, geo_location, NoReply)
            /\ UNCHANGED geo_reply
       ELSE \E reply \in GeocodeReplies(geo_location)
                          \cup MalformedGeocodeReplies :
            /\ geo_reply' = reply
            /\ geo_out' = GeoOutcome(geo_fn, geo_location, reply)
    /\ geo_pc' = "done"
    /\ UNCHANGED <<est_vars, qry_vars, store, ingest_log, req_vars,
                   geo_fn, geo_arg, geo_location>>

NextGeo == GeoPrompt \/ GeoCall

SpecGeo == InitGeo /\ [][NextGeo]_vars

\* ----------------------------------------------------------- query harness
\* Calls of RAGSystem.query, one after the other, with the arguments and the
\* behaviour of the retriever and of the model drawn from small sets.
QueryTexts == {"how far is it", "which way is fastest"}
QueryLocations == {None, "Rome"}
QueryPreferences == {None, "", "bus"}

\* api.py: the value of the transport_pref dropdown, None when nothing is
\* selected.
WebPreferences == {None, "bus"}

\* The documents the retriever returns (search_kwargs k = 5): the first five
\* of the stored ones, or all of them when there are fewer.
RetrievedDocs(vector_store) ==
    {SubSeq(vector_store, 1, IF Len(vector_store) < 5
                             THEN Len(vector_store) ELSE 5)}

QueryEnvs(vector_store) ==
    {QueryEnv(TRUE, <<>>, FALSE, None)}
    \cup {QueryEnv(FALSE, docs, TRUE, None) : docs \in RetrievedDocs(vector_store)}
    \cup {QueryEnv(FALSE, docs, FALSE, "Take the A1 motorway.") :
            docs \in RetrievedDocs(vector_store)}

\* The record of one call of query: its arguments, what it met, the chat
\* history before it, and what it did.
QueryCall(chat_history, user_query, transport_preference, user_location, env) ==
    [user_query |-> user_query,
     transport_preference |-> transport_preference,
     user_location |-> user_location,
     env |-> env, memory_before |-> chat_history,
     call |-> query(chat_history, user_query, transport_preference,
                    user_location, env)]

InitQuery ==
    /\ EstIdle
    /\ GeoIdle
    /\ QueryIdle
    /\ StoreEmpty
    /\ program = "query" /\ pc = "harness"
    /\ RequestIdle

HarnessQuery ==
    /\ program = "query"
    /\ Len(query_log) < MaxQueries
    /\ \E user_query \in QueryTexts, transport_preference \in QueryPreferences,
          user_location \in QueryLocations, env \in QueryEnvs(store) :
         LET entry == QueryCall(memory, user_query, transport_preference,
                                user_location, env)
         IN  /\ memory' = entry.call.memory
             /\ query_log' = Append(query_log, entry)
    /\ UNCHANGED <<est_vars, geo_vars, store, ingest_log, req_vars>>

NextQuery == HarnessQuery

SpecQuery == InitQuery /\ [][NextQuery]_vars

\* ------------------------------------------------------ planner helpers
\* `if base_car_distance:` - None and 0.0 are both false.
Truthy(distance) == distance # <<>> /\ distance[1].n # 0

\* hr, min_remainder = divmod(duration_minutes, 60)
\* min, sec = divmod(min_remainder * 60, 60), then int().
DisplayHr(duration_minutes) == RatFloor(duration_minutes) \div 60
DisplayMin(duration_minutes) ==
    RatFloor(RatMulInt(EstMinRemainder(duration_minutes), 60)) \div 60
DisplaySec(duration_minutes) ==
    RatFloor(RatSubInt(RatMulInt(EstMinRemainder(duration_minutes), 60),
                       60 * DisplayMin(duration_minutes)))

\* main(): one line of the route summary for an API-supported mode.
CliApiLine(path) ==
    [distance_km |-> PathKm(path), distance_miles |-> PathMiles(path),
     hr |-> PathHr(path), min |-> PathMin(path), sec |-> PathSec(path)]

\* main(): one "(estimated)" line of the route summary.
CliEstimatedLine(distance_km, vehicle) ==
    LET duration_minutes ==
            calculate_additional_transport_times(distance_km, vehicle)
    IN  [distance_km |-> distance_km,
         distance_miles |-> Rat(distance_km.n * 100, distance_km.d * 161),
         hr |-> DisplayHr(duration_minutes),
         min |-> DisplayMin(duration_minutes),
         sec |-> DisplaySec(duration_minutes),
         estimated |-> TRUE]

\* main(): the route summary printed after the two loops.
CliSummary(paths, distance) ==
    LET api == {v \in {"car", "bike", "foot"} :
                    v \in DOMAIN paths /\ HasPath(paths[v])}
        est == IF Truthy(distance) THEN {"bus", "airplane"} ELSE {}
    IN  [v \in api \cup est |->
            IF v \in api THEN CliApiLine(paths[v].paths[1])
            ELSE CliEstimatedLine(distance[1], v)]

\* main(): one iteration of `for vehicle in additional_profiles`.
CliStoreEstimate(vector_store, orig_loc, dest_loc, distance, vehicle) ==
    store_additional_transport_info(vector_store, orig_loc, dest_loc, vehicle,
        distance, calculate_additional_transport_times(distance, vehicle))

\* api.py transport_modes[vehicle]["cost_per_km"]
cost_per_km(vehicle) ==
    IF vehicle = "car" THEN Rat(15, 100)
    ELSE IF vehicle = "bike" THEN Rat(1, 100)
    ELSE IF vehicle = "foot" THEN RatInt(0)
    ELSE IF vehicle = "bus" THEN Rat(10, 100)
    ELSE Rat(50, 100)

RatMul(a, b) == Rat(a.n * b.n, a.d * b.d)

\* plan_route: global_route_data["routes"][vehicle] for an API mode.
WebApiRoute(path, vehicle) ==
    [hr |-> PathHr(path), min |-> PathMin(path), sec |-> PathSec(path),
     distance_km |-> PathKm(path), distance_miles |-> PathMiles(path),
     estimated_cost |-> RatMul(PathKm(path), cost_per_km(vehicle))]

\* plan_route: global_route_data["routes"][vehicle] for bus and airplane.
WebEstimatedRoute(vehicle) ==
    LET distance_km == RatInt(100)   \* base_car_distance = 100  # Default km
        duration_minutes ==
            calculate_additional_transport_times(distance_km, vehicle)
    IN  [hr |-> DisplayHr(duration_minutes),
         min |-> DisplayMin(duration_minutes),
         sec |-> DisplaySec(duration_minutes),
         distance_km |-> distance_km,
         distance_miles |-> Rat(distance_km.n * 100, distance_km.d * 161),
         estimated_cost |-> RatMul(distance_km, cost_per_km(vehicle)),
         estimated |-> TRUE]

\* --------------------------------------------------------------- planners
Init ==
    /\ EstIdle
    /\ GeoIdle
    /\ QueryIdle
    /\ StoreEmpty
    /\ program \in {"cli", "web", "script"}
    /\ pc = (IF program = "cli" THEN "menu"
             ELSE IF program = "web" THEN "idle" ELSE "script_start")
    /\ RequestIdle

\* The locals of a request are dead once it has ended (each is assigned anew
\* before the next request reads it); they are cleared when it ends.
LocalsCleared ==
    /\ loc1' = "" /\ loc2' = "" /\ location' = ""
    /\ orig' = <<>> /\ dest' = <<>>
    /\ vehicle_idx' = 0
    /\ all_paths_data' = <<>>
    /\ base_car_distance' = <<>>

\* geocoding(): `while location == "": location = input(...)`.
GeocodingPrompt ==
    /\ pc \in {"geocoding_orig", "geocoding_dest"}
    /\ location = ""
    /\ \E typed \in Inputs : location' = typed
    /\ UNCHANGED <<est_vars, geo_vars, web_vars, qry_vars,
                   store, ingest_log, program, pc, loc1, loc2, orig,
                   dest, vehicle_idx, all_paths_data, base_car_distance,
                   global_route_data, result, events>>

\* main(): choice "1" and the "Starting Location" prompt.
CliPlanNewRoute ==
    /\ program = "cli" /\ pc = "menu"
    /\ Len(store) <= MaxStoreLen
    /\ \E typed \in Inputs \cup {"q"} :
         IF typed \in QuitWords
         THEN /\ pc' = "done"
              /\ UNCHANGED <<loc1, location, events, result>>
         ELSE /\ loc1' = typed
              /\ location' = typed
              /\ pc' = "geocoding_orig"
              /\ events' = <<>>
              /\ result' = NoResult
    /\ UNCHANGED <<est_vars, geo_vars, web_vars, qry_vars, store, ingest_log,
                   program, loc2, orig, dest, vehicle_idx, all_paths_data,
                   base_car_distance, global_route_data>>

\* main(): choice "2": the three prompts, rag_system.query and the printed
\* answer.
CliQuery ==
    /\ program = "cli" /\ pc = "menu"
    /\ Len(store) <= MaxStoreLen
    /\ \E user_query \in {"how far is it", "q"}, current_loc \in {"", "Rome", "q"},
          transport_pref \in {"", "bus", "tram", "q"} :
         IF \/ user_query \in QuitWords \/ current_loc \in QuitWords
            \/ transport_pref \in QuitWords
         THEN pc' = "done" /\ UNCHANGED <<memory, query_log>>
         ELSE \E env \in QueryEnvs(store) :
              LET pref == IF transport_pref \in all_profiles
                          THEN transport_pref ELSE None
                  entry == QueryCall(memory, user_query,
                                IF Falsy(pref) THEN None ELSE pref,
                                IF current_loc # "" THEN current_loc ELSE None,
                                env)
              IN  /\ memory' = entry.call.memory
                  /\ query_log' = <<entry>>
                  /\ pc' = "answered"
    /\ UNCHANGED <<est_vars, geo_vars, web_vars, store, ingest_log, program,
                   loc1, loc2, location, orig, dest, vehicle_idx,
                   all_paths_data, base_car_distance, global_route_data,
                   result, events>>

\* main(): choice "3".
CliQuit ==
    /\ program = "cli" /\ pc = "menu"
    /\ pc' = "done"
    /\ UNCHANGED <<est_vars, geo_vars, web_vars, qry_vars,
                   store, ingest_log, program, loc1, loc2, location,
                   orig, dest, vehicle_idx, all_paths_data, base_car_distance,
                   global_route_data, result, events>>

\* main(): orig = geocoding(loc1, key), from the geocode request on.
CliGeocodingOrig ==
    /\ program = "cli" /\ pc = "geocoding_orig"
    /\ location # ""
    /\ \E reply \in GeocodeReplies(location) :
         /\ events' = Append(events, GeocodeEvent("orig", loc1, location, reply))
         /\ IF geocoding_raises(reply)
            THEN pc' = "crashed" /\ UNCHANGED orig
            ELSE pc' = "input_dest" /\ orig' = geocoding(location, reply)
    /\ UNCHANGED <<est_vars, geo_vars, web_vars, qry_vars,
                   store, ingest_log, program, loc1, loc2, location,
                   dest, vehicle_idx, all_paths_data, base_car_distance,
                   global_route_data, result>>

\* main(): the "Destination" prompt.
CliInputDest ==
    /\ program = "cli" /\ pc = "input_dest"
    /\ \E typed \in Inputs \cup {"q"} :
         IF typed \in QuitWords
         THEN pc' = "done" /\ UNCHANGED <<loc2, location>>
         ELSE loc2' = typed /\ location' = typed /\ pc' = "geocoding_dest"
    /\ UNCHANGED <<est_vars, geo_vars, web_vars, qry_vars,
                   store, ingest_log, program, loc1, orig, dest,
                   vehicle_idx, all_paths_data, base_car_distance,
                   global_route_data, result, events>>

\* main(): dest = geocoding(loc2, key), then the status check and the reset
\* of all_paths_data and base_car_distance.
CliGeocodingDest ==
    /\ program = "cli" /\ pc = "geocoding_dest"
    /\ location # ""
    /\ \E reply \in GeocodeReplies(location) :
         /\ events' = Append(events, GeocodeEvent("dest", loc2, location, reply))
         /\ IF geocoding_raises(reply)
            THEN /\ pc' = "crashed"
                 /\ UNCHANGED <<loc1, loc2, location, orig, dest, result,
                                all_paths_data, base_car_distance, vehicle_idx>>
            ELSE LET g == geocoding(location, reply) IN
                 IF orig[1] # 200 \/ g[1] # 200
                 THEN /\ result' = [status |-> "GeocodingFailed", modes |-> <<>>]
                      /\ pc' = "menu"
                      /\ LocalsCleared
                 ELSE /\ dest' = g
                      /\ all_paths_data' = <<>>
                      /\ base_car_distance' = <<>>
                      /\ vehicle_idx' = 1
                      /\ pc' = "routing"
                      /\ UNCHANGED <<loc1, loc2, location, orig, result>>
    /\ UNCHANGED <<est_vars, geo_vars, web_vars, qry_vars,
                   store, ingest_log, program, global_route_data>>

\* main(): one iteration of `for vehicle in api_supported_profiles`.
MutCliRouteRetriesOnError ==
    /\ program = "cli" /\ pc = "routing"
    /\ LET vehicle == api_supported_profiles[vehicle_idx] IN
       \E reply \in RouteReplies(vehicle, orig[2] # "null" /\ dest[2] # "null") :
         IF reply.raises
         THEN /\ events' = Append(events, RouteEvent(vehicle, reply))
              /\ pc' = "crashed"
              /\ UNCHANGED <<all_paths_data, base_car_distance, store,
                             vehicle_idx>>
         ELSE /\ IF reply.status = 200
                 THEN LET paths_data == reply.paths_data IN
                      /\ all_paths_data' = (vehicle :> paths_data) @@ all_paths_data
                      /\ base_car_distance' =
                            IF vehicle = "car" /\ HasPath(paths_data)
                            THEN <<PathKm(paths_data.paths[1])>>
                            ELSE base_car_distance
                      /\ store' = store_route_data(store, paths_data,
                                                   orig[4], dest[4], vehicle)
                      /\ events' = events \o
                            <<RouteEvent(vehicle, reply),
                              IngestEvent(vehicle, Len(store') - Len(store))>>
                 ELSE /\ events' = Append(events, RouteEvent(vehicle, reply))
                      /\ UNCHANGED <<all_paths_data, base_car_distance, store>>
              /\ vehicle_idx' = IF reply.status = 200 THEN vehicle_idx + 1
                                ELSE vehicle_idx
              /\ pc' = IF reply.status = 200
                          /\ vehicle_idx = Len(api_supported_profiles)
                       THEN "estimate" ELSE "routing"
    /\ UNCHANGED <<est_vars, geo_vars, web_vars, qry_vars,
                   ingest_log, program, loc1, loc2, location, orig,
                   dest, global_route_data, result>>

CliRoute ==
    /\ program = "cli" /\ pc = "routing"
    /\ LET vehicle == api_supported_profiles[vehicle_idx] IN
       \E reply \in RouteReplies(vehicle, orig[2] # "null" /\ dest[2] # "null") :
         IF reply.raises
         THEN /\ events' = Append(events, RouteEvent(vehicle, reply))
              /\ pc' = "crashed"
              /\ UNCHANGED <<all_paths_data, base_car_distance, store,
                             vehicle_idx>>
         ELSE /\ IF reply.status = 200
                 THEN LET paths_data == reply.paths_data IN
                      /\ all_paths_data' = (vehicle :> paths_data) @@ all_paths_data
                      /\ base_car_distance' =
                            IF vehicle = "car" /\ HasPath(paths_data)
                            THEN <<PathKm(paths_data.paths[1])>>
                            ELSE base_car_distance
                      /\ store' = store_route_data(store, paths_data,
                                                   orig[4], dest[4], vehicle)
                      /\ events' = events \o
                            <<RouteEvent(vehicle, reply),
                              IngestEvent(vehicle, Len(store') - Len(store))>>
                 ELSE /\ events' = Append(events, RouteEvent(vehicle, reply))
                      /\ UNCHANGED <<all_paths_data, base_car_distance, store>>
              /\ vehicle_idx' = vehicle_idx + 1
              /\ pc' = IF vehicle_idx = Len(api_supported_profiles)
                       THEN "estimate" ELSE "routing"
    /\ UNCHANGED <<est_vars, geo_vars, web_vars, qry_vars,
                   ingest_log, program, loc1, loc2, location, orig,
                   dest, global_route_data, result>>

\* main(): the estimates for additional_profiles and the route summary.
CliEstimateAndSummary ==
    /\ program = "cli" /\ pc = "estimate"
    /\ IF Truthy(base_car_distance)
       THEN LET with_bus == CliStoreEstimate(store, orig[4], dest[4],
                                base_car_distance[1], additional_profiles[1])
                with_airplane == CliStoreEstimate(with_bus, orig[4], dest[4],
                                base_car_distance[1], additional_profiles[2])
            IN  /\ store' = with_airplane
                /\ events' = events \o
                      <<IngestEvent(additional_profiles[1],
                                    Len(with_bus) - Len(store)),
                        IngestEvent(additional_profiles[2],
                                    Len(with_airplane) - Len(with_bus))>>
       ELSE UNCHANGED <<store, events>>
    /\ result' = [status |-> "ok",
                  modes |-> CliSummary(all_paths_data, base_car_distance)]
    /\ pc' = "pref_mode"
    /\ UNCHANGED <<est_vars, geo_vars, web_vars, qry_vars,
                   ingest_log, program, loc1, loc2, location, orig,
                   dest, vehicle_idx, all_paths_data, base_car_distance,
                   global_route_data>>

\* main(): the "Which mode of transport" prompt, the detailed directions,
\* and the "AI-enhanced information" prompt with its rag_system.query call.
CliPrefMode ==
    /\ program = "cli" /\ pc = "pref_mode"
    /\ \E typed \in {"car", "bus", "tram", "q"}, enhance \in {"y", "n"} :
         IF typed \in QuitWords
         THEN pc' = "done" /\ UNCHANGED <<memory, query_log>>
         ELSE LET pref_mode == IF typed \in all_profiles THEN typed ELSE "car"
              IN  /\ pc' = IF enhance = "y" THEN "answered" ELSE "menu"
                  /\ IF enhance = "y"
                     THEN \E env \in QueryEnvs(store) :
                          LET entry == QueryCall(memory,
                                  "Tell me about the route from " \o orig[4]
                                  \o " to " \o dest[4] \o " with a focus on "
                                  \o pref_mode \o " transportation",
                                  pref_mode, None, env)
                          IN  /\ memory' = entry.call.memory
                              /\ query_log' = <<entry>>
                     ELSE UNCHANGED <<memory, query_log>>
    /\ LocalsCleared
    /\ UNCHANGED <<est_vars, geo_vars, web_vars, store, ingest_log, program,
                   global_route_data, result, events>>

\* main(): back at the top of `while True` after an answer was printed; the
\* record of the call is dropped with the call's locals.
CliContinue ==
    /\ program = "cli" /\ pc = "answered"
    /\ pc' = "menu"
    /\ query_log' = <<>>
    /\ UNCHANGED <<est_vars, geo_vars, web_vars, memory, store, ingest_log,
                   program, loc1, loc2, location, orig, dest, vehicle_idx,
                   all_paths_data, base_car_distance, global_route_data,
                   result, events>>

\* plan_route(origin, destination) is called.
WebPlanRoute ==
    /\ program = "web" /\ pc = "idle"
    /\ \E origin \in Inputs, destination \in Inputs :
         /\ loc1' = origin
         /\ loc2' = destination
         /\ location' = origin
    /\ pc' = "geocoding_orig"
    /\ call_before' = <<global_route_data>>
    /\ UNCHANGED <<est_vars, geo_vars, qry_vars, route_planned, streamed,
                   store, ingest_log, program, orig, dest, events, result,
                   vehicle_idx, all_paths_data, base_car_distance,
                   global_route_data>>

\* plan_route: orig_data = self.geocode_location(origin).
WebGeocodeOrig ==
    /\ program = "web" /\ pc = "geocoding_orig"
    /\ location # ""
    /\ \E reply \in GeocodeReplies(location) :
         /\ events' = Append(events, GeocodeEvent("orig", loc1, location, reply))
         /\ orig' = geocode_location(location, reply)
    /\ location' = loc2
    /\ pc' = "geocoding_dest"
    /\ UNCHANGED <<est_vars, geo_vars, web_vars, qry_vars,
                   store, ingest_log, program, loc1, loc2, dest,
                   vehicle_idx, all_paths_data, base_car_distance,
                   global_route_data, result>>

\* plan_route: dest_data = self.geocode_location(destination), the error
\* card, and the reset of global_route_data.
WebGeocodeDest ==
    /\ program = "web" /\ pc = "geocoding_dest"
    /\ location # ""
    /\ \E reply \in GeocodeReplies(location) :
         LET dest_data == geocode_location(location, reply) IN
         /\ events' = Append(events, GeocodeEvent("dest", loc2, location, reply))
         /\ IF orig.status = "error" \/ dest_data.status = "error"
            THEN /\ result' = [status |-> "GeocodingFailed", modes |-> <<>>]
                 /\ pc' = "returned"
                 /\ LocalsCleared
                 /\ UNCHANGED <<global_route_data, route_planned,
                                call_before>>
            ELSE /\ dest' = dest_data
                 /\ global_route_data' =
                        [origin |-> orig.location,
                         destination |-> dest_data.location,
                         routes |-> <<>>]
                 /\ route_planned' = TRUE
                 /\ vehicle_idx' = 1
                 /\ pc' = "routing"
                 /\ UNCHANGED <<loc1, loc2, location, orig, all_paths_data,
                                base_car_distance, result, call_before>>
    /\ UNCHANGED <<est_vars, geo_vars, qry_vars, streamed, store, ingest_log,
                   program>>

\* plan_route: one iteration of `for vehicle in transport_modes` for an
\* API-supported mode; a raised exception ends in the "Unexpected Error" card.
WebRoute ==
    /\ program = "web" /\ pc = "routing"
    /\ LET vehicle == transport_modes[vehicle_idx] IN
       \E reply \in RouteReplies(vehicle, TRUE) :
         /\ events' = Append(events, RouteEvent(vehicle, reply))
         /\ IF reply.raises
            THEN /\ result' = [status |-> "error", modes |-> <<>>]
                 /\ pc' = "returned"
                 /\ LocalsCleared
                 /\ UNCHANGED <<global_route_data, call_before>>
            ELSE /\ global_route_data' =
                        IF reply.status = 200 /\ HasPath(reply.paths_data)
                        THEN [global_route_data EXCEPT !.routes =
                                (vehicle :> WebApiRoute(reply.paths_data.paths[1],
                                                        vehicle)) @@ @]
                        ELSE global_route_data
                 /\ vehicle_idx' = vehicle_idx + 1
                 /\ pc' = IF vehicle_idx = 3 THEN "estimated" ELSE "routing"
                 /\ UNCHANGED <<loc1, loc2, location, orig, dest,
                                all_paths_data, base_car_distance, result,
                                call_before>>
    /\ UNCHANGED <<est_vars, geo_vars, qry_vars, route_planned, streamed,
                   store, ingest_log, program>>

\* plan_route: the iterations for bus and airplane, and the returned table
\* (one row per entry of global_route_data["routes"]).
WebEstimatedAndReturn ==
    /\ program = "web" /\ pc = "estimated"
    /\ global_route_data' =
            [global_route_data EXCEPT !.routes =
                ("airplane" :> WebEstimatedRoute("airplane"))
                @@ ("bus" :> WebEstimatedRoute("bus")) @@ @]
    /\ result' = [status |-> "ok", modes |-> global_route_data'.routes]
    /\ pc' = "returned"
    /\ LocalsCleared
    /\ UNCHANGED <<est_vars, geo_vars, qry_vars, web_vars,
                   store, ingest_log, program, events>>

\* plan_route has returned its card; the record of the call is dropped with
\* the call's locals.
WebPlanReturn ==
    /\ program = "web" /\ pc = "returned"
    /\ pc' = "idle"
    /\ events' = <<>>
    /\ result' = NoResult
    /\ call_before' = <<>>
    /\ UNCHANGED <<est_vars, geo_vars, qry_vars, route_planned, streamed,
                   store, ingest_log, program, loc1, loc2, location, orig,
                   dest, vehicle_idx, all_paths_data, base_car_distance,
                   global_route_data>>

\* stream_route_query: f"{query} ({context})" with
\* context = f"Route from {origin} to {destination}".
FullQuery(user_query, route_data) ==
    user_query \o " (Route from " \o route_data.origin \o " to "
               \o route_data.destination \o ")"

\* stream_route_query(query, transport_preference) with no guard on
\* global_route_data: the query is always made.
MutStreamRouteQueryNoGuard ==
    /\ program = "web" /\ pc = "idle"
    /\ \E user_query \in QueryTexts, transport_preference \in WebPreferences,
          env \in QueryEnvs(store) :
         LET entry == QueryCall(memory,
                          FullQuery(user_query, global_route_data),
                          transport_preference, None, env)
         IN  /\ memory' = entry.call.memory
             /\ query_log' = <<entry>>
             /\ streamed' = [kind |-> "answer",
                             answer |-> entry.call.response.answer]
    /\ pc' = "streamed"
    /\ UNCHANGED <<est_vars, geo_vars, call_before, route_planned, store,
                   ingest_log, program, loc1, loc2, location, orig, dest,
                   vehicle_idx, all_paths_data, base_car_distance,
                   global_route_data, result, events>>

\* stream_route_query(query, transport_preference): the warning card when no
\* route has been planned, else the answer of
\* rag_system.query(full_query, transport_preference), yielded in chunks.
WebStreamRouteQuery ==
    /\ program = "web" /\ pc = "idle"
    /\ \E user_query \in QueryTexts, transport_preference \in WebPreferences :
         IF Falsy(global_route_data.origin)
            \/ Falsy(global_route_data.destination)
         THEN /\ streamed' = [kind |-> "warning", answer |-> None]
              /\ UNCHANGED <<memory, query_log>>
         ELSE \E env \in QueryEnvs(store) :
              LET entry == QueryCall(memory,
                               FullQuery(user_query, global_route_data),
                               transport_preference, None, env)
              IN  /\ memory' = entry.call.memory
                  /\ query_log' = <<entry>>
                  /\ streamed' = [kind |-> "answer",
                                  answer |-> entry.call.response.answer]
    /\ pc' = "streamed"
    /\ UNCHANGED <<est_vars, geo_vars, call_before, route_planned, store,
                   ingest_log, program, loc1, loc2, location, orig, dest,
                   vehicle_idx, all_paths_data, base_car_distance,
                   global_route_data, result, events>>

\* stream_route_query has yielded its last chunk; the record of the call is
\* dropped with the call's locals.
WebStreamReturn ==
    /\ program = "web" /\ pc = "streamed"
    /\ pc' = "idle"
    /\ query_log' = <<>>
    /\ streamed' = NoStream
    /\ UNCHANGED <<est_vars, geo_vars, memory, call_before, route_planned,
                   store, ingest_log, program, loc1, loc2, location, orig,
                   dest, vehicle_idx, all_paths_data, base_car_distance,
                   global_route_data, result, events>>

\* graphhopper_parse-json_3.py: the two geocoding calls made before the loop.
ScriptInitialLocations ==
    /\ program = "script" /\ pc = "script_start"
    /\ \E r1 \in GeocodeReplies("Washington, D.C."),
          r2 \in GeocodeReplies("Baltimore, Maryland") :
         /\ orig' = script_geocoding("Washington, D.C.", r1)
         /\ dest' = script_geocoding("Baltimore, Maryland", r2)
         /\ events' = <<GeocodeEvent("orig", "Washington, D.C.",
                                     "Washington, D.C.", r1),
                        GeocodeEvent("dest", "Baltimore, Maryland",
                                     "Baltimore, Maryland", r2)>>
    /\ pc' = "script_input_orig"
    /\ UNCHANGED <<est_vars, geo_vars, web_vars, qry_vars,
                   store, ingest_log, program, loc1, loc2, location,
                   vehicle_idx, all_paths_data, base_car_distance,
                   global_route_data, result>>

\* graphhopper_parse-json_3.py: the "Starting Location" prompt and
\* orig = geocoding(loc1, key).
ScriptOrig ==
    /\ program = "script" /\ pc = "script_input_orig"
    /\ \E typed \in Inputs \cup {"q"} :
         IF typed \in {"quit", "q"}
         THEN /\ pc' = "done"
              /\ UNCHANGED <<loc1, orig, events, result>>
         ELSE \E reply \in GeocodeReplies(typed) :
              /\ loc1' = typed
              /\ orig' = script_geocoding(typed, reply)
              /\ events' = IF typed = "" THEN <<>>
                           ELSE <<GeocodeEvent("orig", typed, typed, reply)>>
              /\ result' = NoResult
              /\ pc' = "script_input_dest"
    /\ UNCHANGED <<est_vars, geo_vars, web_vars, qry_vars,
                   store, ingest_log, program, loc2, location, dest,
                   vehicle_idx, all_paths_data, base_car_distance,
                   global_route_data>>

\* graphhopper_parse-json_3.py: the "Destination" prompt,
\* dest = geocoding(loc2, key) and get_route(orig, dest, key).
ScriptDest ==
    /\ program = "script" /\ pc = "script_input_dest"
    /\ \E typed \in Inputs \cup {"q"} :
         IF typed \in {"quit", "q"}
         THEN /\ pc' = "done"
              /\ UNCHANGED <<loc2, dest, events, result>>
         ELSE \E reply \in GeocodeReplies(typed) :
              LET g == script_geocoding(typed, reply)
                  geocoded == IF typed = "" THEN events
                              ELSE Append(events,
                                      GeocodeEvent("dest", typed, typed, reply))
              IN
              /\ loc2' = typed
              /\ dest' = g
              /\ IF orig[1] = 200 /\ g[1] = 200
                 THEN \E route \in RouteReplies("default",
                                    orig[2] # "null" /\ g[2] # "null") :
                      /\ events' = Append(geocoded, RouteEvent("default", route))
                      /\ IF route.raises \/ route.status # 200
                         THEN /\ result' = [status |-> "None", modes |-> <<>>]
                              /\ pc' = "script_input_orig"
                         ELSE IF HasPath(route.paths_data)
                         THEN /\ result' =
                                   [status |-> "ok",
                                    modes |-> ("default" :>
                                        CliApiLine(route.paths_data.paths[1]))]
                              /\ pc' = "script_input_orig"
                         ELSE \* paths_data["paths"][0] raises
                              /\ pc' = "crashed"
                              /\ UNCHANGED result
                 ELSE /\ events' = geocoded
                      /\ result' = [status |-> "GeocodingFailed", modes |-> <<>>]
                      /\ pc' = "script_input_orig"
    /\ UNCHANGED <<est_vars, geo_vars, web_vars, qry_vars,
                   store, ingest_log, program, loc1, location, orig,
                   vehicle_idx, all_paths_data, base_car_distance,
                   global_route_data>>

Next ==
    \/ GeocodingPrompt
    \/ CliPlanNewRoute
    \/ CliQuit
    \/ CliQuery
    \/ CliContinue
    \/ CliGeocodingOrig
    \/ CliInputDest
    \/ CliGeocodingDest
    \/ CliRoute
    \/ CliEstimateAndSummary
    \/ CliPrefMode
    \/ WebPlanRoute
    \/ WebGeocodeOrig
    \/ WebGeocodeDest
    \/ WebRoute
    \/ WebEstimatedAndReturn
    \/ WebPlanReturn
    \/ WebStreamRouteQuery
    \/ WebStreamReturn
    \/ ScriptInitialLocations
    \/ ScriptOrig
    \/ ScriptDest

Spec == Init /\ [][Next]_vars

\* ------------------------------------------------------------------ claims
\* C3: for every distance_km with 0 <= distance_km < 100 the airplane
\* estimate is exactly 1800 seconds (30 minutes).
C3_ShortFlightIs1800s ==
    (est_pc = "done" /\ est_mode = "airplane" /\ RatLess(est_d1, RatInt(100)))
        => Seconds(est_r1) = RatInt(1800)

C3_Witness ==
    /\ est_pc = "done" /\ est_mode = "airplane"
    /\ est_d1 = Rat(199, 2) /\ Seconds(est_r1) = RatInt(1800)

\* C4: for every distance_km >= 100 the airplane estimate is at least 1800
\* seconds, equals distance_km/700 hours plus 30 minutes, and is strictly
\* increasing in distance_km.
C4_LongFlight ==
    (est_pc = "done" /\ est_mode = "airplane" /\ RatLeq(RatInt(100), est_d1))
        => /\ RatLeq(RatInt(1800), Seconds(est_r1))
           \* distance_km/700 h + 30 min, in seconds: d * 3600 / 700 + 1800
           /\ RatEq(Seconds(est_r1),
                    RatAddInt(Rat(est_d1.n * 3600, est_d1.d * 700), 1800))
           /\ (RatLeq(RatInt(100), est_d2) /\ RatLess(est_d1, est_d2))
                  => RatLess(est_r1, est_r2)

C4_Witness ==
    /\ est_pc = "done" /\ est_mode = "airplane"
    /\ est_d1 = RatInt(100) /\ est_d2 = RatInt(6800)
    /\ RatLess(est_r1, est_r2)

\* C5: for every distance_km >= 0 the bus estimate equals
\* distance_km/25*3600 seconds and is strictly increasing in distance_km.
C5_Bus ==
    (est_pc = "done" /\ est_mode = "bus")
        => /\ RatEq(Seconds(est_r1), Rat(est_d1.n * 3600, est_d1.d * 25))
           /\ RatLess(est_d1, est_d2) => RatLess(est_r1, est_r2)

C5_Witness ==
    /\ est_pc = "done" /\ est_mode = "bus"
    /\ est_d1 = RatInt(0) /\ est_d2 = RatInt(6800)
    /\ Seconds(est_r2) = RatInt(979200)

\* ------------------------------------------------ claims on the ingestion
\* Number of documents in the store tagged with route id rid.
CountRoute(rid) ==
    Cardinality({i \in 1..Len(store) : store[i].metadata.route_id = rid})

EntryRouteId(e) == route_id(e.orig_loc, e.dest_loc, e.vehicle)

\* C8: store_route_data on a response whose first path has N instructions
\* adds exactly N+2 documents: one metadata document, N direction documents
\* numbered 1..N carrying the provider's instructions in the provider's
\* order, and one summary document whose step count is N.
C8_RouteDataAddsNPlus2 ==
    \A k \in 1..Len(ingest_log) :
        LET e == ingest_log[k] IN
        (e.op = "store_route_data" /\ HasPath(e.paths_data)) =>
            LET path == e.paths_data.paths[1]
                N == NumInstructions(path)
                added == SubSeq(store, e.before + 1, e.after)
                OfType(t) == {i \in 1..Len(added) : added[i].metadata.type = t}
            IN  /\ e.after - e.before = N + 2
                /\ Len(added) = N + 2
                /\ Cardinality(OfType("route_metadata")) = 1
                /\ Cardinality(OfType("route_summary")) = 1
                /\ Cardinality(OfType("direction")) = N
                /\ \A i \in OfType("route_summary") :
                       added[i].page_content.steps = N
                /\ \A j \in 1..N :
                       /\ added[j + 1].metadata.type = "direction"
                       /\ added[j + 1].metadata.step_number = j
                       /\ added[j + 1].page_content.step = j
                       /\ added[j + 1].page_content.text = path.instructions[j].text

C8_Witness ==
    \E k \in 1..Len(ingest_log) :
        /\ ingest_log[k].op = "store_route_data"
        /\ HasPath(ingest_log[k].paths_data)
        /\ NumInstructions(ingest_log[k].paths_data.paths[1]) = 2
        /\ ingest_log[k].after - ingest_log[k].before = 4

\* C9: ingestion is not idempotent: after store_route_data has been called
\* exactly twice for a route (same origin, destination, mode, N steps), the
\* store holds 2*(N+2) documents with that route id.
C9_TwiceDoubles ==
    \A i, j \in 1..Len(ingest_log) :
        LET e == ingest_log[i]
            f == ingest_log[j]
        IN  ( /\ i < j
              /\ e.op = "store_route_data" /\ f.op = "store_route_data"
              /\ HasPath(e.paths_data)
              /\ e.paths_data = f.paths_data
              /\ EntryRouteId(e) = EntryRouteId(f)
              /\ \A k \in 1..Len(ingest_log) :
                    (k # i /\ k # j) => EntryRouteId(ingest_log[k]) # EntryRouteId(e) )
            => CountRoute(EntryRouteId(e))
                 = 2 * (NumInstructions(e.paths_data.paths[1]) + 2)

C9_Witness ==
    /\ Len(ingest_log) = 2
    /\ ingest_log[1].paths_data = ingest_log[2].paths_data
    /\ EntryRouteId(ingest_log[1]) = EntryRouteId(ingest_log[2])
    /\ ingest_log[2].op = "store_route_data"
    /\ ingest_log[1].op = "store_route_data"
    /\ HasPath(ingest_log[1].paths_data)
    /\ NumInstructions(ingest_log[1].paths_data.paths[1]) = 1
    /\ CountRoute(EntryRouteId(ingest_log[1])) = 6

\* ------------------------------------------------ claims on the planners
Planner == program \in {"cli", "web"}

\* The request has shown or returned its result.
Finished == result.status # "pending"

EventsOf(api) == {k \in 1..Len(events) : events[k].api = api}

\* Outcomes of the route calls made for a vehicle in the current request.
RouteOutcomes(vehicle) ==
    {events[k].outcome : k \in {j \in EventsOf("route") :
                                    events[j].vehicle = vehicle}}

\* Both locations of the current request resolved to a hit.
BothResolved ==
    /\ \E k \in EventsOf("geocode") :
            events[k].which = "orig" /\ events[k].outcome = "hit"
    /\ \E k \in EventsOf("geocode") :
            events[k].which = "dest" /\ events[k].outcome = "hit"

\* C1: if the car route call fails (non-200 status or no path returned),
\* the plan result has no bus entry and no airplane entry, in the CLI
\* planner and in the web planner.
C1_NoEstimateWithoutCar ==
    (Planner /\ RouteOutcomes("car") \cap {"status", "nopath"} # {})
        => /\ "bus" \notin DOMAIN result.modes
           /\ "airplane" \notin DOMAIN result.modes

\* C2: if the origin or the destination does not resolve (non-200, or 200
\* with zero hits), planning returns a geocoding error, no route call is
\* issued for any mode, and nothing is ingested.
C2_UnresolvedStopsPlanning ==
    (Planner /\ \E k \in EventsOf("geocode") :
                    events[k].outcome \in {"status", "nohits"})
        => /\ EventsOf("route") = {}
           /\ EventsOf("ingest") = {}
           /\ Finished => result.status = "GeocodingFailed"

\* C6: whenever the car route call succeeds with a path (any car distance
\* >= 0, including 0), the plan result has a bus entry and an airplane
\* entry, each computed by the estimator from that car distance and marked
\* estimated, with no steps.
C6_EstimatesFromCarDistance ==
    \A k \in EventsOf("route") :
        (Planner /\ Finished /\ result.status = "ok"
         /\ events[k].vehicle = "car" /\ events[k].outcome = "path") =>
            LET car_km == PathKm(events[k].paths_data.paths[1]) IN
            \A mode \in {"bus", "airplane"} :
                /\ mode \in DOMAIN result.modes
                /\ LET shown == result.modes[mode]
                       minutes == calculate_additional_transport_times(car_km, mode)
                   IN  /\ "estimated" \in DOMAIN shown
                       /\ shown.estimated
                       /\ "steps" \notin DOMAIN shown
                       /\ shown.distance_km = car_km
                       /\ shown.hr = DisplayHr(minutes)
                       /\ shown.min = DisplayMin(minutes)
                       /\ shown.sec = DisplaySec(minutes)

\* C7: with both locations resolved, a failed route call (non-200 status
\* or a request error) removes only that mode: planning does not fail as a
\* whole, the remaining modes are still attempted, and the API-backed modes
\* in the result are exactly those whose call returned a path.
C7_FailedModeOnlySkipped ==
    (Planner /\ BothResolved) =>
        /\ pc # "crashed"
        /\ result.status # "error"
        /\ Finished =>
            /\ result.status = "ok"
            /\ \A v \in {"car", "bike", "foot"} : RouteOutcomes(v) # {}
            /\ {v \in {"car", "bike", "foot"} : v \in DOMAIN result.modes}
                 = {v \in {"car", "bike", "foot"} : "path" \in RouteOutcomes(v)}

\* C10: resolving the empty string issues no geocode request to the
\* provider and never waits for new input (it returns an error result).
C10_EmptyInputNotResolved ==
    /\ \A k \in EventsOf("geocode") : events[k].arg # ""
    /\ ~(pc \in {"geocoding_orig", "geocoding_dest"} /\ location = "")

\* ---------------------------------------------------- claims on geocoding
\* The name the four presence combinations of state and country call for:
\* name / name, state / name, country / name, state, country.
C11_CanonicalName(hit) ==
    IF hit.has_state /\ hit.has_country
    THEN hit.name \o ", " \o hit.state \o ", " \o hit.country
    ELSE IF hit.has_state THEN hit.name \o ", " \o hit.state
    ELSE IF hit.has_country THEN hit.name \o ", " \o hit.country
    ELSE hit.name

\* The call under way ended in a return of a <<status, lat, lng, name>> tuple.
ReturnedTuple ==
    /\ geo_pc = "done"
    /\ geo_fn \in {"main.geocoding", "script.geocoding"}
    /\ geo_out.ended = "returned"

\* The provider answered 200 with at least one hit.
ReplyHasHit ==
    /\ geo_reply # NoReply /\ ~geo_reply.raises
    /\ geo_reply.json_error = "none"
    /\ geo_reply.status = 200 /\ geo_reply.has_hits
    /\ Len(geo_reply.hits) >= 1

\* C11: on a 200 geocode response with at least one hit, the returned name
\* is the first hit's name, then its state if present, then its country if
\* present, joined with ", ", absent parts omitted.
C11_CanonicalNameJoin ==
    (geo_pc = "done" /\ geo_fn \in {"main.geocoding", "script.geocoding"}
        /\ ReplyHasHit)
    => /\ geo_out.ended = "returned"
       /\ geo_out.value[4] = C11_CanonicalName(geo_reply.hits[1])

\* The provider answered with zero hits or with a status other than 200.
ReplyUnresolved ==
    /\ geo_reply # NoReply /\ ~geo_reply.raises
    /\ \/ geo_reply.status # 200
       \/ /\ geo_reply.json_error = "none" /\ geo_reply.has_hits
          /\ Len(geo_reply.hits) = 0

\* C12: when the geocode response has zero hits or a non-200 status,
\* geocoding returns latitude "null", longitude "null" and the raw query
\* text as the name.
C12_UnresolvedKeepsRawQuery ==
    (geo_pc = "done" /\ geo_fn \in {"main.geocoding", "script.geocoding"}
        /\ ReplyUnresolved)
    => /\ geo_out.ended = "returned"
       /\ geo_out.value[2] = "null"
       /\ geo_out.value[3] = "null"
       /\ geo_out.value[4] = geo_arg

\* The provider call failed: the network, a body that does not parse, or a
\* body without the expected fields.
ReplyFailed ==
    /\ geo_reply # NoReply
    /\ \/ geo_reply.raises
       \/ geo_reply.json_error # "none"
       \/ geo_reply.status = 200 /\ ~geo_reply.has_hits
       \/ geo_reply.status # 200 /\ ~geo_reply.has_message

\* The value returned is an error status with an unresolved location.
ReturnedError ==
    IF geo_fn = "api.geocode_location"
    THEN geo_out.value.status = "error"
    ELSE /\ geo_out.value[1] # 200 \/ Len(geo_reply.hits) = 0
         /\ geo_out.value[2] = "null"
         /\ geo_out.value[3] = "null"

\* C13: geocoding never raises; a network failure, an unparseable body or an
\* error response lacking expected fields gives a returned error status
\* with an unresolved location.
C13_GeocodingNeverRaises ==
    geo_pc = "done"
    => /\ geo_out.ended = "returned"
       /\ ReplyFailed => (geo_out.value # <<>> /\ ReturnedError)


\* ------------------------------------------------ claims on RAGSystem.query
\* The calls of the log that succeeded: retrieval and the model both returned.
SucceededCalls ==
    {k \in 1..Len(query_log) :
        ~query_log[k].env.retrieval_raises /\ ~query_log[k].env.model_raises}

FailedCalls == (1..Len(query_log)) \ SucceededCalls

\* C14: after every query call that succeeds the chat history has grown by
\* exactly one pair, the (query, answer) of that call, appended last.
C14_SuccessAppendsPair ==
    \A k \in SucceededCalls :
        query_log[k].call.memory =
            Append(query_log[k].memory_before,
                   <<query_log[k].user_query, query_log[k].call.response.answer>>)

\* C15: if retrieval or the model invocation fails, query returns the fixed
\* fallback answer, raises nothing, and leaves the chat history as it was.
C15_FailureGivesFallback ==
    \A k \in FailedCalls :
        /\ ~query_log[k].call.raised
        /\ query_log[k].call.response.answer = FallbackAnswer
        /\ query_log[k].call.memory = query_log[k].memory_before

C15_Witness ==
    /\ \E k \in FailedCalls : query_log[k].env.retrieval_raises
    /\ \E k \in FailedCalls : query_log[k].env.model_raises

\* C16: whenever a user location or a transport preference is supplied, the
\* question slot of the prompt given to the model holds the original user
\* query text, not the enhanced query.
C16_QuestionIsOriginalQuery ==
    \A k \in 1..Len(query_log) :
        (/\ query_log[k].call.prompted
         /\ \/ ~Falsy(query_log[k].user_location)
            \/ ~Falsy(query_log[k].transport_preference))
        => query_log[k].call.prompt.question = query_log[k].user_query

\* C17: the string given to the retriever is the raw query followed by the
\* present context clauses, user location first and transport preference
\* second; with neither present it is the raw query.
C17_EnhancedQueryOrder ==
    \A k \in 1..Len(query_log) :
        LET e == query_log[k]
            at == "User is currently at " \o e.user_location
            prefers == "User prefers " \o e.transport_preference
                       \o " transportation"
        IN  e.call.retrieved_with =
                IF Falsy(e.user_location) /\ Falsy(e.transport_preference)
                THEN e.user_query
                ELSE IF Falsy(e.transport_preference)
                THEN e.user_query \o " (" \o at \o ")"
                ELSE IF Falsy(e.user_location)
                THEN e.user_query \o " (" \o prefers \o ")"
                ELSE e.user_query \o " (" \o at \o "; " \o prefers \o ")"

C17_Witness ==
    /\ Len(query_log) = 2
    /\ query_log[1].call.retrieved_with =
          "how far is it (User is currently at Rome; User prefers bus transportation)"
    /\ query_log[2].call.retrieved_with = "how far is it"
    /\ query_log[2].transport_preference = ""


\* ------------------------------------------- claims on estimator and store
\* C18: for every mode other than bus and airplane (car, bike, foot, any
\* unknown string) and every distance, calculate_additional_transport_times
\* returns 0.
C18_OtherModesGiveZero ==
    (est_pc = "done" /\ est_mode \notin {"bus", "airplane"})
    => est_r1 = RatInt(0) /\ est_r2 = RatInt(0)

C18_Witness ==
    /\ est_pc = "done" /\ est_mode = "train"
    /\ est_d1 = RatInt(6800) /\ est_d2 = RatInt(0)
    /\ est_r1 = RatInt(0)

\* The positions of the store one call of the log added documents at.
AddedBy(e) == (e.before + 1)..e.after

\* C19: every unit added by one ingestion call carries the same routeId tag,
\* the one built from that call's origin, destination and mode.
C19_OneRouteIdPerIngestion ==
    \A k \in 1..Len(ingest_log) :
        LET e == ingest_log[k] IN
        \A j \in AddedBy(e) :
            store[j].metadata.route_id =
                e.orig_loc \o "_to_" \o e.dest_loc \o "_" \o e.vehicle

C19_Witness ==
    /\ Len(ingest_log) = 2
    /\ ingest_log[1].op = "store_route_data"
    /\ ingest_log[1].after - ingest_log[1].before = 3
    /\ ingest_log[2].op = "store_additional_transport_info"
    /\ ingest_log[2].after - ingest_log[2].before = 2
    /\ store[1].metadata.route_id # store[5].metadata.route_id

\* C20: store_additional_transport_info for bus or airplane adds exactly two
\* units: a metadata unit tagged estimated and an information unit for that
\* mode; it adds no direction unit.
C20_EstimatedModeAddsTwo ==
    \A k \in 1..Len(ingest_log) :
        LET e == ingest_log[k] IN
        (e.op = "store_additional_transport_info"
            /\ e.vehicle \in {"bus", "airplane"})
        => /\ e.after = e.before + 2
           /\ store[e.before + 1].metadata.type = "route_metadata"
           /\ "estimated" \in DOMAIN store[e.before + 1].metadata
           /\ store[e.before + 1].metadata.estimated = TRUE
           /\ store[e.before + 1].metadata.mode = e.vehicle
           /\ store[e.before + 2].metadata.type = "transport_info"
           /\ store[e.before + 2].metadata.mode = e.vehicle
           /\ \A j \in AddedBy(e) : store[j].metadata.type # "direction"

C20_Witness ==
    /\ Len(ingest_log) = 2
    /\ ingest_log[1].op = "store_additional_transport_info"
    /\ ingest_log[1].vehicle = "bus"
    /\ ingest_log[2].op = "store_additional_transport_info"
    /\ ingest_log[2].vehicle = "airplane"
    /\ Len(store) = 4


\* ------------------------------------------------- claims on tags and ids
\* C21: every unit in the store, of every kind, has tags for origin,
\* destination, mode and routeId.
C21_EveryUnitFullyTagged ==
    \A k \in 1..Len(store) :
        {"origin", "destination", "mode", "route_id"}
            \subseteq DOMAIN store[k].metadata

\* The calls of the log that added at least one unit, and the routeId tag
\* of the first unit each added.
AddingCalls == {k \in 1..Len(ingest_log) : ingest_log[k].after > ingest_log[k].before}

StoredRouteId(k) == store[ingest_log[k].before + 1].metadata.route_id

\* C24: two ingestions get the same routeId if and only if their origin,
\* destination and mode are all equal.
C24_RouteIdInjective ==
    \A i, j \in AddingCalls :
        (StoredRouteId(i) = StoredRouteId(j))
        <=> /\ ingest_log[i].orig_loc = ingest_log[j].orig_loc
            /\ ingest_log[i].dest_loc = ingest_log[j].dest_loc
            /\ ingest_log[i].vehicle = ingest_log[j].vehicle


\* ------------------------------------------------- claims on the planners
IsPrefix(s, t) == Len(s) <= Len(t) /\ SubSeq(t, 1, Len(s)) = s

\* A step in which RAGSystem.query was called.
QueryStep == query_log' # query_log /\ query_log' # <<>>

\* C22: the store is append-only under every sequence of planning,
\* ingestion and query operations: every step keeps the stored units as a
\* prefix of the store, and a step that calls query leaves the store as it
\* was.
C22_StoreAppendOnly ==
    [][/\ IsPrefix(store, store')
       /\ QueryStep => store' = store]_vars

C22_Witness ==
    /\ program = "cli" /\ pc = "answered"
    /\ Len(store) >= 4
    /\ Len(query_log) = 1
    /\ \E k \in EventsOf("ingest") : events[k].added > 0

\* The provider calls of the current request for one geocoded location and
\* for one routed mode.
GeocodeCalls(which) ==
    {k \in EventsOf("geocode") : events[k].which = which}

RouteCalls(vehicle) ==
    {k \in EventsOf("route") : events[k].vehicle = vehicle}

\* C23: within one planning request the provider is called at most once for
\* each of the two locations and at most once for each API-backed mode; a
\* failed call is not repeated.
C23_SingleAttempt ==
    Planner
    => /\ \A which \in {"orig", "dest"} : Cardinality(GeocodeCalls(which)) <= 1
       /\ \A vehicle \in {"car", "bike", "foot"} :
            Cardinality(RouteCalls(vehicle)) <= 1
       /\ \A k \in EventsOf("route") :
            events[k].vehicle \in {"car", "bike", "foot"}

C23_Witness ==
    /\ Planner /\ Finished
    /\ \E k \in RouteCalls("car") : events[k].outcome = "status"
    /\ \E k \in RouteCalls("bike") : events[k].outcome = "path"
    /\ Cardinality(EventsOf("route")) = 3
    /\ Cardinality(EventsOf("geocode")) = 2

\* C25: when a planning request finishes, every mode shown in its result has
\* had its units ingested into the store.
C25_ShownModesIngested ==
    (Planner /\ result.status = "ok")
    => \A v \in DOMAIN result.modes :
        /\ \E k \in EventsOf("ingest") :
              events[k].vehicle = v /\ events[k].added > 0
        /\ \E k \in 1..Len(store) : store[k].metadata.mode = v

\* C26: in the web planner, whenever plan_route returns an error card (a
\* geocoding failure or an exception during routing), global_route_data is
\* the same as it was before the call.
C26_ErrorCardKeepsRouteData ==
    (program = "web" /\ pc = "returned"
        /\ result.status \in {"GeocodingFailed", "error"})
    => call_before = <<global_route_data>>

\* C27: in the web planner, stream_route_query calls RAGSystem.query only if
\* some earlier plan_route has set both origin and destination; before that
\* it yields only the warning and calls neither the retriever nor the model.
C27_QueryOnlyAfterPlan ==
    program = "web" =>
        /\ query_log # <<>> => route_planned
        /\ (pc = "streamed" /\ ~route_planned)
              => (streamed.kind = "warning" /\ query_log = <<>>)

C27_Witness ==
    /\ program = "web" /\ pc = "streamed"
    /\ route_planned
    /\ streamed.kind = "answer"
    /\ Len(query_log) = 1
    /\ query_log[1].call.prompted
    /\ query_log[1].user_query =
           "how far is it (Route from Rome to Baltimore, Maryland, United States)"

====
